---- MODULE Spec2Model ----
(***************************************************************************)
(* A model of playwright_plus/web_intercept.py: the JSON interception and  *)
(* polling protocol of intercept_json_playwright, its response listener    *)
(* and the module's default hooks; of the _old and _multiple variants and  *)
(* the listener of construct_handle_response; and of the decorators of     *)
(* playwright_plus/browser_surf.py.                                        *)
(*                                                                         *)
(* Python values are tagged records, so that values of different Python    *)
(* types can be compared: None, str (a sequence of text tokens, so that    *)
(* f-string concatenation and "in" are modelled), dict (a function from    *)
(* keys to values) and list (opaque, non-mapping).                         *)
(***************************************************************************)
EXTENDS Integers, Sequences, FiniteSets, TLC

VARIABLES
    cfg,              \* the call's arguments (hooks, max_refresh, timeout)
    pc,               \* position of the call in intercept_json_playwright
    time_spent,       \* web_intercept.py:134
    nb_refresh,       \* web_intercept.py:135
    captcha_to_solve, \* web_intercept.py:136
    result,           \* web_intercept.py:137
    is_error,         \* web_intercept.py:138
    target_json,      \* web_intercept.py:141, the closure cell shared with handle_response
    work,             \* milliseconds the current iteration has consumed so far
    returned,         \* the value the call returned (NotReturned before)
    nb_responses,     \* history: responses delivered to the listener so far
    nb_goto,          \* history: page.goto calls issued so far
    nb_iter,          \* history: loop bodies entered so far
    last_matching,    \* history: body of the last matching response delivered
    pending,          \* history: body the listener last stored that no iteration has read yet
    read_body,        \* history: the value of pending at the most recent read of the slot
    solver_calls,     \* history: returns of the captcha solver, in order
    last_captcha,     \* history: the Result of the latest iteration that flagged a captcha
    parser_applied,   \* history: the parser hook was called at line 252
    listening,        \* handle_response is registered on the page (line 175)
    last_response,    \* history: the last response the page received
    nb_decoded,       \* history: calls of response.json() so far
    listener_raised,  \* history: an exception left handle_response
    lost,             \* history: responses received while no listener was registered
    fn,               \* the function of web_intercept.py that is running
    polls,            \* iterations left of the for loop of the _old and _multiple variants
    expect_more,      \* intercept_json_playwright_multiple's expect_more
    nav_failed,       \* history: a page.goto of intercept_json_playwright raised
    t0,               \* history: int(duration * 1000) of the initial page.goto (line 184)
    wp,               \* browser_surf.with_page: the decorator's closure and its calls
    wa,               \* browser_surf.wait_after_execution: closure and calls
    cm                \* browser_surf.check_for_loaded_marker: closure and calls

vars == <<cfg, pc, time_spent, nb_refresh, captcha_to_solve, result, is_error,
          target_json, work, returned, nb_responses, nb_goto, nb_iter,
          last_matching, pending, read_body, solver_calls, last_captcha,
          parser_applied, listening, last_response, nb_decoded,
          listener_raised, lost, fn, polls, expect_more, nav_failed, t0, wp, wa, cm>>

\* what only the delivery of a response changes
delivery == <<last_response, nb_decoded, listener_raised, lost>>

\* the state of the other functions of the repository
legacy == <<fn, polls, expect_more, nav_failed, t0>>
surf == <<wp, wa, cm>>

---------------------------------------------------------------------------
(* Bounds of the model *)

MaxRefresh == 2
MaxResponses == 2

---------------------------------------------------------------------------
(* Python values *)

PyNone == [t |-> "None"]
PyStr(tokens) == [t |-> "str", s |-> tokens]
PyDict(f) == [t |-> "dict", d |-> f]
PyList == [t |-> "list"]
Str(text) == PyStr(<<text>>)
EmptyMap == [k \in {} |-> PyNone]
EmptyDict == PyDict(EmptyMap)

\* bool(v)
Truthy(v) ==
    CASE v.t = "None" -> FALSE
      [] v.t = "str"  -> v.s # <<>>
      [] v.t = "dict" -> DOMAIN v.d # {}
      [] OTHER        -> TRUE

IsDict(v) == v.t = "dict"

\* d.get(k, default) on a dict d
Get(d, k, default) == IF k \in DOMAIN d.d THEN d.d[k] ELSE default

\* d[k] = v on a dict d
SetItem(d, k, v) == PyDict([x \in DOMAIN d.d \cup {k} |-> IF x = k THEN v ELSE d.d[x]])

\* needle in haystack, on strings given as token sequences
StrContains(haystack, needle) ==
    /\ haystack.t = "str"
    /\ \E i \in 0..(Len(haystack.s) - Len(needle)) :
          SubSeq(haystack.s, i + 1, i + Len(needle)) = needle

MkResult(error, error_message, data) ==
    PyDict([error |-> error, error_message |-> error_message, data |-> data])

PlaywrightInterceptError == Str("PlaywrightInterceptError")
CaptchaRaisedError == Str("CaptchaRaisedError")
EmptyJsonMessage == Str("An empty json was collected after calling the hidden API.")

\* web_intercept.py:208-212
EmptyPayloadResult == MkResult(PlaywrightInterceptError, EmptyJsonMessage, EmptyDict)

\* a mapping with the three keys of a Result
WellFormed(v) == IsDict(v) /\ {"error", "error_message", "data"} \subseteq DOMAIN v.d

---------------------------------------------------------------------------
(* Network responses the page receives *)

NoBody == [kind |-> "none", json |-> PyNone, text |-> <<>>]
\* response.json() raises; text is str(jde)
Undecodable(text) == [kind |-> "undecodable", json |-> PyNone, text |-> text]
\* response.json() returns v
Decoded(v) == [kind |-> "json", json |-> v, text |-> <<>>]

\* response.json() is cancelled (asyncio CancelledError, a BaseException)
Cancelled == [kind |-> "cancelled", json |-> PyNone, text |-> <<>>]

DecodeFailureText == <<"Expecting value">>

PTiers == PyDict([tiers |-> Str("T"), meta |-> Str("M")])
PEmbeddedError == PyDict([error |-> Str("boom"), tiers |-> Str("T")])
PFalsyError == PyDict([error |-> PyNone, tiers |-> Str("T")])
PCaptcha == PyDict([captcha |-> Str("yes")])
PCaptchaData == PyDict([captcha |-> Str("yes"), data |-> PyDict([old |-> Str("o")])])
PCaptchaText == PyDict([captcha |-> Str("yes"), data |-> Str("text")])

Payloads ==
    {PTiers, EmptyDict, PEmbeddedError, PFalsyError, PCaptcha, PCaptchaData, PCaptchaText}

Bodies ==
    {Undecodable(DecodeFailureText), Cancelled, Decoded(PyList)}
        \cup {Decoded(p) : p \in Payloads}

\* match: json_url_subpart in response.url
Responses ==
    {[match |-> TRUE, body |-> b] : b \in Bodies}
        \cup {[match |-> FALSE, body |-> Decoded(PTiers)]}

\* a decoded non-empty mapping with no truthy 'error' field
ValidPayload(b) ==
    /\ b.kind = "json"
    /\ IsDict(b.json)
    /\ Truthy(b.json)
    /\ ~Truthy(Get(b.json, "error", PyNone))

---------------------------------------------------------------------------
(* The response listener *)

\* ResponseBuffer with a fixed message that leaves out str(jde)
ResponseBuffer_NoText(response) ==
    IF response.body.kind = "json"
    THEN response.body.json
    ELSE PyDict([error |-> PyStr(<<"exception when trying to intercept:">>)])

\* lines 160-163: buffer = response.json(), or the error wrapper on an exception
ResponseBuffer(response) ==
    IF response.body.kind = "json"
    THEN response.body.json
    ELSE PyDict([error |-> PyStr(<<"exception when trying to intercept:">> \o response.body.text)])

\* SlotEntry with the test "'error' in buffer" in place of buffer.get("error")
SlotEntry_KeyPresent(buffer) ==
    IF "error" \notin DOMAIN buffer.d
    THEN buffer
    ELSE MkResult(PlaywrightInterceptError, buffer.d["error"], EmptyDict)

\* SlotEntry with the buffer kept as data of the error record
SlotEntry_ExposeBody(buffer) ==
    IF ~Truthy(Get(buffer, "error", PyNone))
    THEN buffer
    ELSE MkResult(PlaywrightInterceptError, buffer.d["error"], buffer)

\* lines 165-173: the value stored under target_json["data"]
SlotEntry(buffer) ==
    IF ~Truthy(Get(buffer, "error", PyNone))
    THEN buffer
    ELSE MkResult(PlaywrightInterceptError, buffer.d["error"], EmptyDict)

\* lines 159-165: an exception leaves the listener. "except Exception" at
\* line 162 does not catch CancelledError, and buffer.get at line 165 raises
\* AttributeError on a decoded value that is not a mapping.
ListenerRaises(response) ==
    /\ response.match
    /\ \/ response.body.kind = "cancelled"
       \/ response.body.kind = "json" /\ ~IsDict(response.body.json)

\* handle_response without the URL filter of line 158
handle_response_NoFilter(tj, response) ==
    IF response.body.kind = "cancelled"
       \/ (response.body.kind = "json" /\ ~IsDict(response.body.json))
    THEN tj
    ELSE SetItem(tj, "data", SlotEntry(ResponseBuffer(response)))

\* lines 143-173: the content of the cell target_json after the listener ran
handle_response(tj, response) ==
    IF response.match /\ ~ListenerRaises(response)
    THEN SetItem(tj, "data", SlotEntry(ResponseBuffer(response)))
    ELSE tj

---------------------------------------------------------------------------
(* Hooks *)

ClassifierKinds == {"absent", "module", "captcha", "unwrap", "noncallable"}
ParserKinds == {"absent", "module", "noncallable"}
SolverKinds == {"absent", "callable", "noncallable"}

\* callable(hook)
Callable(kind) == kind \notin {"absent", "noncallable"}
\* bool(hook): None is falsy, the non-callable value modelled is a truthy one
HookTruthy(kind) == kind # "absent"

\* json_detect_error testing only the presence of the 'error' key
json_detect_error_KeyOnly(r) ==
    IF "error" \in DOMAIN r.d THEN <<TRUE, r>> ELSE <<FALSE, r>>

\* web_intercept.py:32-44
json_detect_error(r) ==
    IF "error" \in DOMAIN r.d /\ Truthy(r.d["error"])
    THEN <<TRUE, r>>
    ELSE <<FALSE, r>>

\* web_intercept.py:47-57
json_parse_result(r) == Get(r, "data", EmptyDict)

\* A caller's classifier that reports a payload carrying a truthy 'captcha'
\* field as the captcha sentinel, and otherwise behaves as json_detect_error.
captcha_detect_error(r) ==
    IF Truthy(Get(Get(r, "data", EmptyDict), "captcha", PyNone))
    THEN <<TRUE, MkResult(CaptchaRaisedError, Str("captcha"), Get(r, "data", EmptyDict))>>
    ELSE json_detect_error(r)

\* A caller's classifier that reports an error record found under 'data' (a
\* mapping with a truthy 'error' field) as the Result itself, and otherwise
\* behaves as captcha_detect_error.
unwrap_detect_error(r) ==
    LET data == Get(r, "data", EmptyDict) IN
    IF IsDict(data) /\ Truthy(Get(data, "error", PyNone))
    THEN <<TRUE, MkResult(Get(data, "error", PyNone),
                          Get(data, "error_message", PyNone),
                          Get(data, "data", EmptyDict))>>
    ELSE captcha_detect_error(r)

\* lines 201-203: is_error, result after the classifier step
Classify(kind, r) ==
    IF ~Callable(kind) THEN <<FALSE, r>>
    ELSE IF kind = "captcha" THEN captcha_detect_error(r)
    ELSE IF kind = "unwrap" THEN unwrap_detect_error(r)
    ELSE json_detect_error(r)

---------------------------------------------------------------------------
(* Timing, in milliseconds *)

PacingFloor == 500
RefreshTimeout == 3000

Timeouts == {0, 600, 1100}

\* how a call of page.goto ends: it returns, or raises the browser
\* library's TimeoutError or another exception
NavOutcomes == {"returned", "TimeoutError", "Exception"}

\* the bare "except:" of lines 181 and 237 with a catch of the timeout only
SwallowedByExcept_TimeoutOnly == {"TimeoutError"}

\* lines 181-183 and 237-238: what the bare "except: pass" around page.goto
\* catches
SwallowedByExcept == {"TimeoutError", "Exception"}
\* int(duration * 1000) of the initial page.goto
NavDurations == {0, 800}
\* duration of a refresh page.goto: quick, or failing at its timeout
RefreshDurations == {200, RefreshTimeout}

---------------------------------------------------------------------------
(* intercept_json_playwright *)

NotReturned == [t |-> "NotReturned"]
NoResponse == [match |-> FALSE, body |-> NoBody]

\* the decorators of browser_surf.py are not in use
SurfIdle == wp = <<>> /\ wa = <<>> /\ cm = <<>>

Configs ==
    [json_detect_error : ClassifierKinds,
     json_parse_result : ParserKinds,
     captcha_solver_function : SolverKinds,
     max_refresh : 0..MaxRefresh,
     timeout : Timeouts]

\* lines 134-141
Init ==
    /\ cfg \in Configs
    /\ pc = "start"
    /\ time_spent = 0
    /\ nb_refresh = 0
    /\ captcha_to_solve = FALSE
    /\ result = EmptyDict
    /\ is_error = FALSE
    /\ target_json = EmptyDict
    /\ work = 0
    /\ returned = NotReturned
    /\ nb_responses = 0
    /\ nb_goto = 0
    /\ nb_iter = 0
    /\ last_matching = NoBody
    /\ pending = NoBody
    /\ read_body = NoBody
    /\ solver_calls = <<>>
    /\ last_captcha = PyNone
    /\ parser_applied = FALSE
    /\ listening = FALSE
    /\ last_response = NoResponse
    /\ nb_decoded = 0
    /\ listener_raised = FALSE
    /\ lost = 0
    /\ fn = "intercept_json_playwright"
    /\ polls = 0
    /\ expect_more = 0
    /\ nav_failed = FALSE
    /\ t0 = 0
    /\ SurfIdle

\* line 175: page.on("response", handle_response)
RegisterListener ==
    /\ pc = "start"
    /\ fn = "intercept_json_playwright"
    /\ listening' = TRUE
    /\ pc' = "registered"
    /\ UNCHANGED <<cfg, time_spent, nb_refresh, captcha_to_solve, result, is_error,
                   target_json, work, returned, nb_responses, nb_goto, nb_iter,
                   last_matching, pending, read_body, solver_calls, last_captcha,
                   parser_applied, delivery, legacy, surf>>

\* page.goto issued before page.on
GotoIssuedAt_BeforeRegister == "start"

\* the position of the call at which the first page.goto is issued (line
\* 180; 293 and 367 in the _old and _multiple variants): after page.on
\* (line 175; 290 and 365)
GotoIssuedAt == "registered"

\* line 180, up to the point where page.goto blocks
StartGoto ==
    /\ pc = GotoIssuedAt
    /\ fn = "intercept_json_playwright"
    /\ nb_goto' = nb_goto + 1
    /\ pc' = "goto"
    /\ UNCHANGED <<cfg, time_spent, nb_refresh, captcha_to_solve, result, is_error,
                   target_json, work, returned, nb_responses, nb_iter, last_matching,
                   pending, read_body, solver_calls, last_captcha, parser_applied,
                   listening, delivery, legacy, surf>>

\* the page delivers a response while the call blocks in a page operation
Blocking == {"goto", "refresh", "wait"}

\* The page receives a response; a registered listener is called with it
\* (lines 143-173). What the page's event delivery does with an exception
\* that leaves the listener is the browser library's: it is recorded in
\* listener_raised and the call is taken to go on.
HandleResponse ==
    /\ pc \in Blocking
    /\ fn = "intercept_json_playwright"
    /\ nb_responses < MaxResponses
    /\ \E response \in Responses :
        /\ last_response' = response
        /\ IF listening
           THEN /\ target_json' = handle_response(target_json, response)
                /\ nb_decoded' = IF response.match THEN nb_decoded + 1 ELSE nb_decoded
                /\ listener_raised' = (listener_raised \/ ListenerRaises(response))
                /\ last_matching' = IF response.match THEN response.body ELSE last_matching
                /\ pending' = IF response.match /\ ~ListenerRaises(response)
                              THEN response.body ELSE pending
                /\ UNCHANGED lost
           ELSE /\ lost' = lost + 1
                /\ UNCHANGED <<target_json, nb_decoded, listener_raised,
                               last_matching, pending>>
    /\ nb_responses' = nb_responses + 1
    /\ UNCHANGED <<cfg, pc, time_spent, nb_refresh, captcha_to_solve, result, is_error,
                   work, returned, nb_goto, nb_iter, read_body, solver_calls,
                   last_captcha, parser_applied, listening, legacy, surf>>

\* lines 178-185: the initial page.goto returns or raises (swallowed)
GotoReturn ==
    /\ pc = "goto"
    /\ fn = "intercept_json_playwright"
    /\ UNCHANGED <<delivery, fn, polls, expect_more, surf>>
    /\ \E d \in NavDurations, outcome \in NavOutcomes :
        /\ nav_failed' = (nav_failed \/ outcome # "returned")
        /\ IF outcome = "returned" \/ outcome \in SwallowedByExcept
           THEN /\ time_spent' = time_spent + d
                /\ t0' = d
                /\ pc' = "loop"
           ELSE /\ pc' = "raised"
                /\ UNCHANGED <<time_spent, t0>>
    /\ UNCHANGED <<cfg, nb_refresh, captcha_to_solve, result, is_error, target_json,
                   work, returned, nb_responses, nb_goto, nb_iter, last_matching,
                   pending, read_body, solver_calls, last_captcha, parser_applied,
                   listening>>

\* LoopCondition with the refresh budget compared by <=
LoopCondition_OffByOne(ts, nr) == (ts <= cfg.timeout) /\ (nr <= cfg.max_refresh)

\* LoopCondition without the refresh budget
LoopCondition_TimeOnly(ts, nr) == ts <= cfg.timeout

\* LoopCondition without the time budget
LoopCondition_RefreshOnly(ts, nr) == nr < cfg.max_refresh

\* line 188
LoopCondition(ts, nr) == (ts <= cfg.timeout) /\ (nr < cfg.max_refresh)

\* line 192: the target read from the cell
Target(tj) == Get(tj, "data", EmptyDict)

\* line 198 (deepcopy: values have no identity here)
Tentative(t) == MkResult(PyNone, PyNone, t)

\* Decide without the empty-target case of line 207
Decide_NoEmptyCheck(t, r) ==
    IF Get(r, "error", PyNone) = CaptchaRaisedError THEN "captcha" ELSE "final"

\* Decide where the record of a decode failure is treated as "nothing yet"
Decide_DecodeErrorRetries(t, r) ==
    IF ~Truthy(t) THEN "empty"
    ELSE IF IsDict(t) /\ Get(t, "error", PyNone) = PlaywrightInterceptError THEN "empty"
    ELSE IF Get(r, "error", PyNone) = CaptchaRaisedError THEN "captcha"
    ELSE "final"

\* Decide where every Result with an error tag is retried like a captcha
Decide_ErrorRetries(t, r) ==
    IF ~Truthy(t) THEN "empty"
    ELSE IF Get(r, "error", PyNone) # PyNone THEN "captcha"
    ELSE "final"

\* lines 207-220: what the iteration does with target t and classified Result r
Decide(t, r) ==
    IF ~Truthy(t) THEN "empty"
    ELSE IF Get(r, "error", PyNone) = CaptchaRaisedError THEN "captcha"
    ELSE "final"

\* SolverInvoked without the test of the captcha flag
SolverInvoked_NoFlag(flag) == Callable(cfg.captcha_solver_function)

\* line 223
SolverInvoked(flag) == flag /\ Callable(cfg.captcha_solver_function)

\* IterationDuration without the wait of lines 242-244
IterationDuration_NoFloor(w) == w

\* SolvedReset without the reset of lines 228-229
SolvedReset_Keep(captcha_solved, value) == value

\* lines 225-229: the slot and the Result after the solver returned
SolvedReset(captcha_solved, value) == IF captcha_solved THEN EmptyDict ELSE value

\* lines 241-248: the wall time one iteration adds to time_spent, given its work
IterationDuration(w) == IF w < PacingFloor THEN w + (PacingFloor - w) ELSE w

\* lines 188-238: one loop iteration, up to its next blocking page operation
Iterate ==
    /\ pc = "loop"
    /\ fn = "intercept_json_playwright"
    /\ UNCHANGED <<delivery, legacy, surf>>
    /\ LoopCondition(time_spent, nb_refresh)
    /\ nb_iter' = nb_iter + 1
    /\ read_body' = pending
    /\ pending' = NoBody
    /\ work' = 0
    /\ LET t == Target(target_json)
           cls == Classify(cfg.json_detect_error, Tentative(t))
           outcome == Decide(t, cls[2])
           r == IF outcome = "empty" THEN EmptyPayloadResult ELSE cls[2]
           flag == captcha_to_solve \/ outcome = "captcha"
       IN  IF ~IsDict(t)
           THEN \* line 194: target_json.keys() raises AttributeError
                /\ pc' = "raised"
                /\ target_json' = t
                /\ UNCHANGED <<is_error, last_captcha, result, captcha_to_solve,
                               nb_refresh, nb_goto, solver_calls>>
           ELSE
           /\ is_error' = cls[1]
           /\ last_captcha' = IF outcome = "captcha" THEN cls[2] ELSE last_captcha
           /\ IF outcome = "final"
              THEN /\ pc' = "after"
                   /\ result' = r
                   /\ target_json' = t
                   /\ UNCHANGED <<captcha_to_solve, nb_refresh, nb_goto, solver_calls>>
              ELSE IF SolverInvoked(flag)
              THEN \E ask_for_refresh \in BOOLEAN, captcha_solved \in BOOLEAN :
                   /\ solver_calls' = Append(solver_calls, <<ask_for_refresh, captcha_solved>>)
                   /\ captcha_to_solve' = IF captcha_solved THEN FALSE ELSE flag
                   /\ target_json' = SolvedReset(captcha_solved, t)
                   /\ result' = SolvedReset(captcha_solved, r)
                   /\ nb_refresh' = IF ask_for_refresh THEN nb_refresh + 1 ELSE nb_refresh
                   /\ nb_goto' = IF ask_for_refresh THEN nb_goto + 1 ELSE nb_goto
                   /\ pc' = IF ask_for_refresh THEN "refresh" ELSE "wait"
              ELSE /\ captcha_to_solve' = flag
                   /\ target_json' = t
                   /\ result' = r
                   /\ pc' = "wait"
                   /\ UNCHANGED <<nb_refresh, nb_goto, solver_calls>>
    /\ UNCHANGED <<cfg, time_spent, returned, nb_responses, last_matching,
                   parser_applied, listening>>

\* lines 236-248: the refresh page.goto returns or raises (swallowed); an
\* iteration that already took the pacing floor does not wait
RefreshReturn ==
    /\ pc = "refresh"
    /\ fn = "intercept_json_playwright"
    /\ UNCHANGED <<delivery, fn, polls, expect_more, t0, surf>>
    /\ \E d \in RefreshDurations, outcome \in NavOutcomes :
        /\ (outcome = "TimeoutError") <=> (d = RefreshTimeout)
        /\ nav_failed' = (nav_failed \/ outcome # "returned")
        /\ IF outcome # "returned" /\ outcome \notin SwallowedByExcept
           THEN /\ pc' = "raised"
                /\ UNCHANGED <<work, time_spent>>
           ELSE IF work + d < PacingFloor
           THEN /\ work' = work + d
                /\ pc' = "wait"
                /\ UNCHANGED time_spent
           ELSE /\ work' = work + d
                /\ time_spent' = time_spent + IterationDuration(work + d)
                /\ pc' = "loop"
    /\ UNCHANGED <<cfg, nb_refresh, captcha_to_solve, result, is_error, target_json,
                   returned, nb_responses, nb_goto, nb_iter, last_matching, pending,
                   read_body, solver_calls, last_captcha, parser_applied, listening>>

\* lines 242-248: page.wait_for_timeout returns
WaitReturn ==
    /\ pc = "wait"
    /\ fn = "intercept_json_playwright"
    /\ UNCHANGED <<delivery, legacy, surf>>
    /\ time_spent' = time_spent + IterationDuration(work)
    /\ pc' = "loop"
    /\ UNCHANGED <<cfg, nb_refresh, captcha_to_solve, result, is_error, target_json,
                   work, returned, nb_responses, nb_goto, nb_iter, last_matching,
                   pending, read_body, solver_calls, last_captcha, parser_applied,
                   listening>>

\* line 188: the loop condition fails
LoopExit ==
    /\ pc = "loop"
    /\ fn = "intercept_json_playwright"
    /\ UNCHANGED <<delivery, legacy, surf>>
    /\ ~LoopCondition(time_spent, nb_refresh)
    /\ pc' = "after"
    /\ UNCHANGED <<cfg, time_spent, nb_refresh, captcha_to_solve, result, is_error,
                   target_json, work, returned, nb_responses, nb_goto, nb_iter,
                   last_matching, pending, read_body, solver_calls, last_captcha,
                   parser_applied, listening>>

\* ParserCalled without the test of the classifier's verdict
ParserCalled_IgnoreVerdict(err, kind) == HookTruthy(kind)

\* line 251
ParserCalled(err, kind) == (~err) /\ HookTruthy(kind)

\* lines 250-254: calling a non-callable parser raises TypeError
Return ==
    /\ pc = "after"
    /\ fn = "intercept_json_playwright"
    /\ UNCHANGED <<delivery, legacy, surf>>
    /\ IF ParserCalled(is_error, cfg.json_parse_result)
       THEN IF Callable(cfg.json_parse_result)
            THEN /\ returned' = json_parse_result(result)
                 /\ parser_applied' = TRUE
                 /\ pc' = "done"
            ELSE /\ pc' = "raised"
                 /\ UNCHANGED <<returned, parser_applied>>
       ELSE /\ returned' = result
            /\ pc' = "done"
            /\ UNCHANGED parser_applied
    /\ UNCHANGED <<cfg, time_spent, nb_refresh, captcha_to_solve, result, is_error,
                   target_json, work, nb_responses, nb_goto, nb_iter, last_matching,
                   pending, read_body, solver_calls, last_captcha, listening>>

Next ==
    \/ RegisterListener
    \/ StartGoto
    \/ HandleResponse
    \/ GotoReturn
    \/ Iterate
    \/ RefreshReturn
    \/ WaitReturn
    \/ LoopExit
    \/ Return

Spec == Init /\ [][Next]_vars

\* The steps of the call itself: the statements between two page operations,
\* and the return of a page operation or of a hook.
Progress ==
    \/ RegisterListener
    \/ StartGoto
    \/ GotoReturn
    \/ Iterate
    \/ RefreshReturn
    \/ WaitReturn
    \/ LoopExit
    \/ Return

\* lines 134-141, for the configurations that differ in what the loop of
\* lines 188-248 does: the parser hook runs after the loop (line 251), and a
\* hook that is not callable is skipped like an absent one (lines 202, 223)
InitLive ==
    /\ Init
    /\ cfg.json_parse_result = "absent"
    /\ cfg.json_detect_error # "noncallable"
    /\ cfg.captcha_solver_function # "noncallable"

\* intercept_json_playwright where every page operation and every hook
\* invocation returns and the interpreter keeps running the call
SpecLive == InitLive /\ [][Next]_vars /\ WF_vars(Progress)

---------------------------------------------------------------------------
(* browser_surf.py: the decorators with_page, wait_after_execution and     *)
(* check_for_loaded_marker. A decorator's arguments live in a closure that *)
(* all calls of the decorated function share.                              *)

MaxCalls == 2

\* every variable of the functions of web_intercept.py
intercept ==
    <<cfg, pc, time_spent, nb_refresh, captcha_to_solve, result, is_error,
      target_json, work, returned, nb_responses, nb_goto, nb_iter, last_matching,
      pending, read_body, solver_calls, last_captcha, parser_applied, listening,
      delivery, legacy>>

\* no function of web_intercept.py is running
InterceptIdle ==
    /\ cfg = [json_detect_error |-> "absent", json_parse_result |-> "absent",
              captcha_solver_function |-> "absent", max_refresh |-> 0, timeout |-> 0]
    /\ pc = "idle"
    /\ time_spent = 0
    /\ nb_refresh = 0
    /\ captcha_to_solve = FALSE
    /\ result = EmptyDict
    /\ is_error = FALSE
    /\ target_json = EmptyDict
    /\ work = 0
    /\ returned = NotReturned
    /\ nb_responses = 0
    /\ nb_goto = 0
    /\ nb_iter = 0
    /\ last_matching = NoBody
    /\ pending = NoBody
    /\ read_body = NoBody
    /\ solver_calls = <<>>
    /\ last_captcha = PyNone
    /\ parser_applied = FALSE
    /\ listening = FALSE
    /\ last_response = NoResponse
    /\ nb_decoded = 0
    /\ listener_raised = FALSE
    /\ lost = 0
    /\ fn = "none"
    /\ polls = 0
    /\ expect_more = 0
    /\ nav_failed = FALSE
    /\ t0 = 0

\* keyword options of with_page and of a call of the decorated function
OptionNames == {"headless", "proxy_info", "cookies"}
OptionValues(k) ==
    CASE k = "headless" -> {"True", "False"}
      [] k = "proxy_info" -> {"None", "proxy"}
      [] k = "cookies" -> {"session"}

\* dictionaries of keyword options
OptionDicts ==
    {d \in UNION {[S -> {"True", "False", "None", "proxy", "session"}] :
                      S \in SUBSET OptionNames} :
        \A k \in DOMAIN d : d[k] \in OptionValues(k)}

\* lines 205-210 of browser_surf.py, for the options of OptionNames (cookies
\* has no entry)
WithPageDefault == [headless |-> "True", proxy_info |-> "None"]

\* dict.update: the entries of e replace or extend those of d
DictUpdate(d, e) ==
    [k \in DOMAIN d \cup DOMAIN e |-> IF k \in DOMAIN e THEN e[k] ELSE d[k]]

\* lines 211-216: the decorator's kwargs after the defaults were filled in
\* and kwargs.update(func_kwargs) ran
with_page_kwargs(kwargs, func_kwargs) ==
    DictUpdate(DictUpdate(WithPageDefault, kwargs), func_kwargs)

\* with_page(**kwargs) was applied to a function (lines 188, 200, 234-236)
InitWithPage ==
    /\ InterceptIdle
    /\ wa = <<>>
    /\ cm = <<>>
    /\ \E kwargs \in OptionDicts :
        \* decorated: history, the arguments the decorator was applied with
        wp = [kwargs |-> kwargs, decorated |-> kwargs, pc |-> "idle", calls |-> 0, func_kwargs |-> <<>>,
              options |-> <<>>, driver |-> "none", browser |-> "none",
              page |-> "none", outcome |-> "none"]

\* lines 201-226: func_wrapper up to the call of the wrapped function
with_page_call ==
    /\ wp.pc = "idle"
    /\ wp.calls < MaxCalls
    /\ \E func_kwargs \in OptionDicts :
        wp' = [wp EXCEPT !.kwargs = with_page_kwargs(wp.kwargs, func_kwargs),
                         !.func_kwargs = func_kwargs,
                         !.options = with_page_kwargs(wp.kwargs, func_kwargs),
                         !.calls = @ + 1,
                         !.pc = "in_func",
                         !.driver = "running",
                         !.browser = "open",
                         !.page = "open",
                         !.outcome = "none"]
    /\ UNCHANGED <<intercept, wa, cm>>

\* lines 226-232: the wrapped function returns; page.close(), browser.close(),
\* the exit of the sync_playwright block, return output
with_page_func_returns ==
    /\ wp.pc = "in_func"
    /\ wp' = [wp EXCEPT !.pc = "idle", !.page = "closed", !.browser = "closed",
                        !.driver = "stopped", !.outcome = "returned"]
    /\ UNCHANGED <<intercept, wa, cm>>

\* line 226: the wrapped function raises. There is no try/finally: lines
\* 229-230 are skipped, the exception leaves the sync_playwright block of
\* line 219, whose exit stops the driver, and propagates to the caller.
with_page_func_raises ==
    /\ wp.pc = "in_func"
    /\ wp' = [wp EXCEPT !.pc = "idle", !.driver = "stopped", !.outcome = "raised"]
    /\ UNCHANGED <<intercept, wa, cm>>

NextWithPage ==
    \/ with_page_call
    \/ with_page_func_returns
    \/ with_page_func_raises

SpecWithPage == InitWithPage /\ [][NextWithPage]_vars

---------------------------------------------------------------------------
(* browser_surf.py: wait_after_execution *)

\* the wait_ms arguments of the decorator, and the wait_ms keyword argument
\* a call may pass: none (the empty sequence) or one value
WaitConfigs == {20, 100}
WaitKwargs == {<<>>, <<40>>}

\* the integers w below 200 at which the double product w * 1.15 falls just
\* short of the half (57.49999999999999 for 50), so that int() truncates
\* one lower than exact arithmetic would
FloatShort == {50, 90, 110, 170, 190}

\* line 299: min = int(wait_ms * 0.85 + 0.5)
RandomizedMin(w) == (85 * w + 50) \div 100

\* line 300: max = int(wait_ms * 1.15 + 0.5)
RandomizedMax(w) == ((115 * w + 50) \div 100) - (IF w \in FloatShort THEN 1 ELSE 0)

\* wait_after_execution(wait_ms, randomized) was applied to a function
\* (lines 266, 282, 306-308)
InitWait ==
    /\ InterceptIdle
    /\ wp = <<>>
    /\ cm = <<>>
    /\ \E w \in WaitConfigs, randomized \in BOOLEAN :
        wa = [configured |-> w, randomized |-> randomized, wait_ms |-> w,
              calls |-> 0, waited |-> 0, overridden |-> FALSE]

\* lines 293-295: the wait_ms of the closure after the keyword argument
wait_ms_after_kwarg(wait_ms, kw) == IF kw = <<>> THEN wait_ms ELSE kw[1]

\* lines 283-304: one call of the decorated function. The value drawn at
\* line 301 is assigned to the nonlocal wait_ms of the closure.
wait_after_execution_call ==
    /\ wa.calls < MaxCalls
    /\ \E kw \in WaitKwargs :
        LET w == wait_ms_after_kwarg(wa.wait_ms, kw) IN
        \E drawn \in RandomizedMin(w)..RandomizedMax(w) :
            LET waited == IF wa.randomized THEN drawn ELSE w IN
            /\ wa.randomized \/ drawn = RandomizedMin(w)
            /\ wa' = [wa EXCEPT !.wait_ms = waited,
                                !.waited = waited,
                                !.calls = @ + 1,
                                !.overridden = (@ \/ kw # <<>>)]
    /\ UNCHANGED <<intercept, wp, cm>>

NextWait == wait_after_execution_call

SpecWait == InitWait /\ [][NextWait]_vars

---------------------------------------------------------------------------
(* browser_surf.py: check_for_loaded_marker *)

\* the pages a call of the decorated function may be given
Pages == {1, 2, 3}

\* a string selector: its name, and whether it starts with a dot
Selector(dot, name) == [t |-> "str", dot |-> dot, name |-> name]

\* page.locator(selector)
Locator(page, selector) == [t |-> "Locator", page |-> page, selector |-> selector]

\* the marker arguments of the decorator: a string selector, a Locator or
\* None, the default
Markers ==
    {Selector(FALSE, "main"), Selector(TRUE, "main"), Selector(FALSE, "footer"),
     Locator(1, Selector(TRUE, "main")), PyNone}

\* lines 346-347: a dot is put before a selector that misses it
WithDot(selector, marker_strict) ==
    IF ~marker_strict /\ ~selector.dot
    THEN [selector EXCEPT !.dot = TRUE]
    ELSE selector

\* check_for_loaded_marker(marker, marker_strict) was applied to a function
\* (lines 311-316, 336, 362-364)
InitMarker ==
    /\ InterceptIdle
    /\ wp = <<>>
    /\ wa = <<>>
    /\ \E marker \in Markers, marker_strict \in BOOLEAN :
        cm = [configured |-> marker, marker |-> marker,
              marker_strict |-> marker_strict, calls |-> 0, page |-> 0,
              waited_on |-> 0, waited_for |-> <<>>, outcome |-> "none"]

\* lines 337-360: one call of the decorated function on a page. The wait of
\* line 351 is inside "if isinstance(marker, str)", and line 349 assigns the
\* Locator to the nonlocal marker of the closure. wait_for returns when the
\* element is visible or raises TimeoutError, which leaves the wrapper.
check_for_loaded_marker_call ==
    /\ cm.calls < MaxCalls
    /\ \E page \in Pages, visible \in BOOLEAN :
        IF cm.marker.t = "str"
        THEN LET locator == Locator(page, WithDot(cm.marker, cm.marker_strict)) IN
             cm' = [cm EXCEPT !.marker = locator,
                              !.calls = @ + 1,
                              !.page = page,
                              !.waited_on = page,
                              !.waited_for = <<locator.selector>>,
                              !.outcome = IF visible THEN "returned" ELSE "TimeoutError"]
        ELSE /\ visible
             /\ cm' = [cm EXCEPT !.calls = @ + 1,
                                 !.page = page,
                                 !.waited_on = 0,
                                 !.waited_for = <<>>,
                                 !.outcome = "returned"]
    /\ UNCHANGED <<intercept, wp, wa>>

NextMarker == check_for_loaded_marker_call

SpecMarker == InitMarker /\ [][NextMarker]_vars

---------------------------------------------------------------------------
(* web_intercept.py: set_json_to_page and construct_handle_response, the   *)
(* listener that stores on the page object. target_json stands for         *)
(* page.target_json.                                                       *)

\* page.target_json was never assigned
Unset == [t |-> "unset"]

\* lines 21-29: the value assigned to page.target_json
set_json_to_page(buffer) ==
    IF ~Truthy(Get(buffer, "error", PyNone))
    THEN buffer
    ELSE MkResult(PlaywrightInterceptError, buffer.d["error"], EmptyDict)

\* lines 82-96: an exception leaves the listener. CancelledError is caught
\* at line 93; buffer.get at line 22 raises AttributeError on a decoded
\* value that is not a mapping.
PageListenerRaises(response) ==
    /\ response.match
    /\ response.body.kind = "json"
    /\ ~IsDict(response.body.json)

\* lines 83-94: page.target_json after the listener ran
construct_handle_response(ptj, response) ==
    IF response.match /\ response.body.kind # "cancelled" /\ ~PageListenerRaises(response)
    THEN set_json_to_page(ResponseBuffer(response))
    ELSE ptj

\* the caller registered construct_handle_response(page, json_url_subpart)
\* on a page whose target_json is unset or the empty mapping
InitPageListener ==
    /\ cfg = [json_detect_error |-> "absent", json_parse_result |-> "absent",
              captcha_solver_function |-> "absent", max_refresh |-> 0, timeout |-> 0]
    /\ pc = "idle"
    /\ fn = "construct_handle_response"
    /\ listening = TRUE
    /\ target_json \in {Unset, EmptyDict}
    /\ time_spent = 0
    /\ nb_refresh = 0
    /\ captcha_to_solve = FALSE
    /\ result = EmptyDict
    /\ is_error = FALSE
    /\ work = 0
    /\ returned = NotReturned
    /\ nb_responses = 0
    /\ nb_goto = 0
    /\ nb_iter = 0
    /\ last_matching = NoBody
    /\ pending = NoBody
    /\ read_body = NoBody
    /\ solver_calls = <<>>
    /\ last_captcha = PyNone
    /\ parser_applied = FALSE
    /\ last_response = NoResponse
    /\ nb_decoded = 0
    /\ listener_raised = FALSE
    /\ lost = 0
    /\ polls = 0
    /\ expect_more = 0
    /\ nav_failed = FALSE
    /\ t0 = 0
    /\ SurfIdle

\* lines 83-94: the page receives a response and calls the listener
PageHandleResponse ==
    /\ fn = "construct_handle_response"
    /\ listening
    /\ nb_responses < MaxResponses
    /\ \E response \in Responses :
        /\ last_response' = response
        /\ target_json' = construct_handle_response(target_json, response)
        /\ nb_decoded' = IF response.match THEN nb_decoded + 1 ELSE nb_decoded
        /\ listener_raised' = (listener_raised \/ PageListenerRaises(response))
        /\ last_matching' = IF response.match THEN response.body ELSE last_matching
        /\ pending' = IF response.match /\ response.body.kind # "cancelled"
                         /\ ~PageListenerRaises(response)
                      THEN response.body ELSE pending
    /\ nb_responses' = nb_responses + 1
    /\ UNCHANGED <<cfg, pc, time_spent, nb_refresh, captcha_to_solve, result, is_error,
                   work, returned, nb_goto, nb_iter, read_body, solver_calls,
                   last_captcha, parser_applied, listening, lost, legacy, surf>>

---------------------------------------------------------------------------
(* web_intercept.py: intercept_json_playwright_old (lines 257-324) and     *)
(* intercept_json_playwright_multiple (lines 327-405)                      *)

LegacyFns == {"intercept_json_playwright_old", "intercept_json_playwright_multiple"}

\* wait_seconds and expect_more arguments
WaitSeconds == {0, 1}
ExpectMores == {0, 1}

LegacyConfigs ==
    [json_detect_error : ClassifierKinds,
     json_parse_result : ParserKinds,
     captcha_solver_function : {"absent"},
     max_refresh : {0},
     timeout : {0},
     wait_seconds : WaitSeconds,
     expect_more : ExpectMores]

\* lines 267-269 and 344: the state at the start of a call of a variant
InitLegacy ==
    /\ fn \in LegacyFns
    /\ cfg \in LegacyConfigs
    /\ fn = "intercept_json_playwright_old" => cfg.expect_more = 0
    /\ pc = "start"
    /\ time_spent = 0
    /\ nb_refresh = 0
    /\ captcha_to_solve = FALSE
    /\ result = EmptyDict
    /\ is_error = FALSE
    /\ target_json = EmptyDict
    /\ work = 0
    /\ returned = NotReturned
    /\ nb_responses = 0
    /\ nb_goto = 0
    /\ nb_iter = 0
    /\ last_matching = NoBody
    /\ pending = NoBody
    /\ read_body = NoBody
    /\ solver_calls = <<>>
    /\ last_captcha = PyNone
    /\ parser_applied = FALSE
    /\ listening = FALSE
    /\ last_response = NoResponse
    /\ nb_decoded = 0
    /\ listener_raised = FALSE
    /\ lost = 0
    /\ polls = 0
    /\ expect_more = cfg.expect_more
    /\ nav_failed = FALSE
    /\ t0 = 0
    /\ SurfIdle

\* what the variants never change
legacy_frame ==
    <<cfg, fn, time_spent, nb_refresh, captcha_to_solve, work, solver_calls,
      last_captcha, nav_failed, t0, surf>>

\* lines 290 and 365: page.on("response", handle_response)
LegacyRegisterListener ==
    /\ pc = "start"
    /\ fn \in LegacyFns
    /\ listening' = TRUE
    /\ pc' = "registered"
    /\ UNCHANGED <<legacy_frame, delivery, result, is_error, target_json, returned,
                   nb_responses, nb_goto, nb_iter, last_matching, pending, read_body,
                   parser_applied, polls, expect_more>>

\* lines 293 and 367, up to the point where page.goto blocks
LegacyStartGoto ==
    /\ pc = GotoIssuedAt
    /\ fn \in LegacyFns
    /\ nb_goto' = nb_goto + 1
    /\ pc' = "goto"
    /\ UNCHANGED <<legacy_frame, delivery, result, is_error, target_json, returned,
                   nb_responses, nb_iter, last_matching, pending, read_body,
                   parser_applied, listening, polls, expect_more>>

\* lines 274-287 and 349-362: an exception leaves the listener of a variant.
\* CancelledError is caught; buffer.get raises AttributeError on a decoded
\* value that is not a mapping.
LegacyListenerRaises(response) ==
    /\ response.match
    /\ response.body.kind = "json"
    /\ ~IsDict(response.body.json)

\* lines 271-288 and 346-363: the cell target_json after the listener ran
legacy_handle_response(tj, response) ==
    IF response.match /\ response.body.kind # "cancelled"
                      /\ ~LegacyListenerRaises(response)
    THEN SetItem(tj, "data", SlotEntry(ResponseBuffer(response)))
    ELSE tj

\* the page receives a response while page.goto or page.wait_for_timeout
\* blocks; a registered listener is called with it
LegacyHandleResponse ==
    /\ pc \in {"goto", "wait"}
    /\ fn \in LegacyFns
    /\ nb_responses < MaxResponses
    /\ \E response \in Responses :
        /\ last_response' = response
        /\ IF listening
           THEN /\ target_json' = legacy_handle_response(target_json, response)
                /\ nb_decoded' = IF response.match THEN nb_decoded + 1 ELSE nb_decoded
                /\ listener_raised' = (listener_raised \/ LegacyListenerRaises(response))
                /\ last_matching' = IF response.match THEN response.body ELSE last_matching
                /\ pending' = IF response.match /\ response.body.kind # "cancelled"
                                 /\ ~LegacyListenerRaises(response)
                              THEN response.body ELSE pending
                /\ UNCHANGED lost
           ELSE /\ lost' = lost + 1
                /\ UNCHANGED <<target_json, nb_decoded, listener_raised,
                               last_matching, pending>>
    /\ nb_responses' = nb_responses + 1
    /\ UNCHANGED <<legacy_frame, pc, result, is_error, returned, nb_goto, nb_iter,
                   read_body, parser_applied, listening, polls, expect_more>>

PlaywrightTimeoutResult ==
    MkResult(Str("PlaywrightTimeoutError"), Str("Timeout exceeded"), EmptyDict)
PlaywrightGotoResult ==
    MkResult(Str("PlaywrightGotoError"), Str("navigation failed"), EmptyDict)

\* lines 292-301 / 366-379: page.goto returns or raises. A timeout ends the
\* call of the _old variant with a Result and is passed over by _multiple;
\* any other exception ends the call with a Result. Then the loop is set up.
LegacyGotoReturn ==
    /\ pc = "goto"
    /\ fn \in LegacyFns
    /\ \E outcome \in {"returned", "TimeoutError", "Exception"} :
        IF \/ outcome = "Exception"
           \/ outcome = "TimeoutError" /\ fn = "intercept_json_playwright_old"
        THEN /\ returned' = IF outcome = "Exception" THEN PlaywrightGotoResult
                            ELSE PlaywrightTimeoutResult
             /\ pc' = "done"
             /\ UNCHANGED <<result, is_error, polls>>
        ELSE /\ pc' = "for"
             /\ polls' = cfg.wait_seconds * 2
             /\ IF fn = "intercept_json_playwright_multiple"
                THEN is_error' = TRUE /\ result' = EmptyPayloadResult
                ELSE UNCHANGED <<is_error, result>>
             /\ UNCHANGED returned
    /\ UNCHANGED <<legacy_frame, delivery, target_json, nb_responses, nb_goto, nb_iter,
                   last_matching, pending, read_body, parser_applied, listening,
                   expect_more>>

\* lines 303-304 / 381-382: the next round of the for loop calls
\* page.wait_for_timeout(500)
LegacyWait ==
    /\ pc = "for"
    /\ fn \in LegacyFns
    /\ polls > 0
    /\ polls' = polls - 1
    /\ pc' = "wait"
    /\ UNCHANGED <<legacy_frame, delivery, result, is_error, target_json, returned,
                   nb_responses, nb_goto, nb_iter, last_matching, pending, read_body,
                   parser_applied, listening, expect_more>>

\* lines 386-400: is_error, result, expect_more and whether the loop ends,
\* for a non-empty target t in the _multiple variant
MultipleStep(t) ==
    LET cls == IF HookTruthy(cfg.json_detect_error)
               THEN Classify(cfg.json_detect_error, Tentative(t))
               ELSE <<is_error, Tentative(t)>>
        stop == ~cls[1] \/ expect_more = 0
    IN  [is_error |-> cls[1], result |-> cls[2], stop |-> stop,
         expect_more |-> IF stop THEN expect_more ELSE expect_more - 1]

\* lines 305-316 / 383-400: page.wait_for_timeout returned; the rest of the
\* round. Line 305 / 383 rebinds the cell the listener writes to.
LegacyPoll ==
    /\ pc = "wait"
    /\ fn \in LegacyFns
    /\ nb_iter' = nb_iter + 1
    /\ read_body' = pending
    /\ pending' = NoBody
    /\ LET t == Target(target_json) IN
       /\ target_json' = t
       /\ IF ~IsDict(t)
          THEN \* target_json.keys() raises AttributeError
               /\ pc' = "raised"
               /\ UNCHANGED <<result, is_error, expect_more>>
          ELSE IF fn = "intercept_json_playwright_old"
          THEN /\ result' = IF Truthy(t) THEN Tentative(t) ELSE EmptyPayloadResult
               /\ pc' = IF Truthy(t) THEN "after" ELSE "for"
               /\ UNCHANGED <<is_error, expect_more>>
          ELSE IF ~Truthy(t)
          THEN /\ pc' = "for"
               /\ UNCHANGED <<result, is_error, expect_more>>
          ELSE IF cfg.json_detect_error = "noncallable"
          THEN \* calling the hook raises TypeError
               /\ pc' = "raised"
               /\ result' = Tentative(t)
               /\ UNCHANGED <<is_error, expect_more>>
          ELSE /\ is_error' = MultipleStep(t).is_error
               /\ result' = MultipleStep(t).result
               /\ expect_more' = MultipleStep(t).expect_more
               /\ pc' = IF MultipleStep(t).stop THEN "after" ELSE "for"
    /\ UNCHANGED <<legacy_frame, delivery, returned, nb_responses, nb_goto,
                   last_matching, parser_applied, listening, polls>>

\* the for loop ran wait_seconds * 2 rounds
LegacyLoopEnd ==
    /\ pc = "for"
    /\ fn \in LegacyFns
    /\ polls = 0
    /\ pc' = "after"
    /\ UNCHANGED <<legacy_frame, delivery, result, is_error, target_json, returned,
                   nb_responses, nb_goto, nb_iter, last_matching, pending, read_body,
                   parser_applied, listening, polls, expect_more>>

\* lines 318-319: the _old variant classifies after the loop; _multiple
\* classified inside it
AfterLoopVerdict ==
    IF fn = "intercept_json_playwright_old" /\ HookTruthy(cfg.json_detect_error)
    THEN Classify(cfg.json_detect_error, result)
    ELSE <<is_error, result>>

\* lines 318-324 / 402-405: classifier (_old), parser, return. A hook that
\* is truthy and not callable raises TypeError when called.
LegacyReturn ==
    /\ pc = "after"
    /\ fn \in LegacyFns
    /\ IF fn = "intercept_json_playwright_old" /\ cfg.json_detect_error = "noncallable"
       THEN /\ pc' = "raised"
            /\ UNCHANGED <<is_error, result, returned, parser_applied>>
       ELSE /\ is_error' = AfterLoopVerdict[1]
            /\ IF ~AfterLoopVerdict[1] /\ HookTruthy(cfg.json_parse_result)
               THEN IF Callable(cfg.json_parse_result)
                    THEN /\ result' = json_parse_result(AfterLoopVerdict[2])
                         /\ returned' = json_parse_result(AfterLoopVerdict[2])
                         /\ parser_applied' = TRUE
                         /\ pc' = "done"
                    ELSE /\ result' = AfterLoopVerdict[2]
                         /\ pc' = "raised"
                         /\ UNCHANGED <<returned, parser_applied>>
               ELSE /\ result' = AfterLoopVerdict[2]
                    /\ returned' = AfterLoopVerdict[2]
                    /\ pc' = "done"
                    /\ UNCHANGED parser_applied
    /\ UNCHANGED <<legacy_frame, delivery, target_json, nb_responses, nb_goto, nb_iter,
                   last_matching, pending, read_body, listening, polls, expect_more>>

NextLegacy ==
    \/ LegacyRegisterListener
    \/ LegacyStartGoto
    \/ LegacyHandleResponse
    \/ LegacyGotoReturn
    \/ LegacyWait
    \/ LegacyPoll
    \/ LegacyLoopEnd
    \/ LegacyReturn

---------------------------------------------------------------------------
(* Every function of web_intercept.py: a call of one of the three variants *)
(* of intercept_json_playwright, or a page with the listener of            *)
(* construct_handle_response.                                              *)

InitAll == Init \/ InitLegacy \/ InitPageListener

NextAll == Next \/ NextLegacy \/ PageHandleResponse

SpecAll == InitAll /\ [][NextAll]_vars

---------------------------------------------------------------------------
(* Claims *)

Ended == pc \in {"after", "done", "raised"}

\* the classifier configured leaves the tentative Result of payload p as it is
Unrewritten(p) == Classify(cfg.json_detect_error, Tentative(p))[2] = Tentative(p)

\* C1 as stated: a valid payload P delivered by a matching response at any
\* point of the call, during the initial navigation or during any pacing
\* wait (taken here for a call whose loop ran and which received that one
\* response only), makes the final Result before the parser
\* {error: None, data: P}, and the value returned through json_parse_result P.
C1_DeliveredAnyTime ==
    (/\ pc \in {"after", "done"}
     /\ nb_iter > 0
     /\ nb_responses = 1
     /\ ValidPayload(last_matching)
     /\ Unrewritten(last_matching.json)) =>
        /\ result = Tentative(last_matching.json)
        /\ (pc = "done" /\ cfg.json_parse_result = "module") =>
               returned = last_matching.json

\* C1, amended: a valid payload P delivered by the last matching response
\* before a loop iteration reads the slot, with a classifier that does not
\* rewrite its Result, ends the loop in that iteration with the final Result
\* {error: None, error_message: None, data: P}; json_parse_result returns P.
C1_ReadPayloadIsFinal ==
    (/\ nb_iter > 0
     /\ ValidPayload(read_body)
     /\ Unrewritten(read_body.json)) =>
        /\ Ended
        /\ result = MkResult(PyNone, PyNone, read_body.json)
        /\ (pc = "done" /\ cfg.json_parse_result = "module") =>
               returned = read_body.json

\* C1 witness: Scenario B, the payload arrives during the first pacing wait,
\* is read by iteration 2 and returned through json_parse_result.
C1_Witness ==
    /\ pc = "done"
    /\ nb_iter = 2
    /\ read_body = Decoded(PTiers)
    /\ cfg.json_detect_error = "module"
    /\ cfg.json_parse_result = "module"
    /\ returned = PTiers

NoMatchingResponse == last_matching = NoBody

HooksCallableOrAbsent ==
    /\ cfg.json_detect_error # "noncallable"
    /\ cfg.json_parse_result # "noncallable"
    /\ cfg.captcha_solver_function # "noncallable"

\* C2 as stated: with timeout > 0 and max_refresh >= 1, whatever the hooks,
\* a call during which no matching response is delivered (taken here for a
\* call whose loop body ran) returns the empty-payload error Result.
C2_AlwaysEmptyPayloadError ==
    (/\ pc = "done"
     /\ nb_iter > 0
     /\ NoMatchingResponse
     /\ HooksCallableOrAbsent
     /\ cfg.timeout > 0
     /\ cfg.max_refresh >= 1) => returned = EmptyPayloadResult

\* C2, amended: when no matching response is delivered, the final Result
\* before the parser is the empty-payload error Result if the loop body ran
\* at least once and the empty mapping if it never ran; the classifier's last
\* verdict is "not an error", so the call returns that Result when no parser
\* is configured and json_parse_result's output on it, {}, otherwise.
C2_NoResponseOutcome ==
    (/\ pc \in {"after", "done"}
     /\ NoMatchingResponse
     /\ HooksCallableOrAbsent) =>
        /\ result = IF nb_iter > 0 THEN EmptyPayloadResult ELSE EmptyDict
        /\ ~is_error
        /\ pc = "done" =>
             returned = IF cfg.json_parse_result = "module" THEN EmptyDict ELSE result

\* C2 witness: Scenario A without a parser, three iterations, the
\* empty-payload error Result is returned.
C2_Witness ==
    /\ pc = "done"
    /\ NoMatchingResponse
    /\ cfg.json_parse_result = "absent"
    /\ cfg.max_refresh = 1
    /\ nb_iter = 3
    /\ time_spent > cfg.timeout
    /\ returned = EmptyPayloadResult

\* C3: with json_detect_error and json_parse_result and no matching response,
\* the classifier's verdict is "not an error", the parser is applied to the
\* final Result and the call returns the empty mapping {}.
C3_ModuleHooksReturnEmpty ==
    (/\ pc = "done"
     /\ NoMatchingResponse
     /\ cfg.json_detect_error = "module"
     /\ cfg.json_parse_result = "module") =>
        /\ ~is_error
        /\ parser_applied
        /\ returned = EmptyDict

\* C3 witness: the parser was applied to the empty-payload error Result.
C3_Witness ==
    /\ pc = "done"
    /\ NoMatchingResponse
    /\ cfg.json_detect_error = "module"
    /\ cfg.json_parse_result = "module"
    /\ nb_iter > 1
    /\ result = EmptyPayloadResult
    /\ parser_applied
    /\ returned = EmptyDict

C5_WellFormedWithoutParser ==
    (pc = "done" /\ ~parser_applied) => WellFormed(returned)

\* C6 as stated: the parser is invoked only on a final Result whose error is
\* absent and whose data is a non-empty payload (taken here for final
\* Results that have the three keys).
C6_ParserOnlyOnSuccess ==
    (parser_applied /\ WellFormed(result)) =>
        /\ result.d["error"] = PyNone
        /\ Truthy(result.d["data"])

\* C6, amended: the parser is invoked exactly when it is configured and the
\* classifier's last verdict is "not an error"; the Result it is applied to
\* is one with error absent and non-empty data, or the empty-payload error
\* Result, or the empty mapping, and never a Result the classifier flagged
\* (a captcha-tagged one).
C6_ParserIffLastVerdictOk ==
    /\ parser_applied => (~is_error /\ cfg.json_parse_result = "module")
    /\ pc = "done" => (parser_applied <=> (~is_error /\ cfg.json_parse_result = "module"))
    /\ parser_applied =>
        \/ result = EmptyDict
        \/ result = EmptyPayloadResult
        \/ /\ WellFormed(result)
           /\ result.d["error"] = PyNone
           /\ Truthy(result.d["data"])

\* C6 witness: the parser was applied to the empty-payload error Result of a
\* call that timed out.
C6_Witness ==
    /\ pc = "done"
    /\ parser_applied
    /\ time_spent > cfg.timeout
    /\ result = EmptyPayloadResult
    /\ returned = EmptyDict

\* C7: the refresh count stays within 0..max_refresh, every refresh is a
\* re-navigation issued by a loop iteration, at most one per iteration.
C7_RefreshWithinBudget ==
    /\ nb_refresh \in 0..cfg.max_refresh
    /\ nb_refresh <= nb_iter
    /\ pc \notin {"start", "registered"} => nb_goto = nb_refresh + 1

\* C7 witness: the whole budget of two refreshes was used.
C7_Witness ==
    /\ cfg.max_refresh = 2
    /\ nb_refresh = 2
    /\ pc = "done"

\* C8: Scenario C. With max_refresh = 1, when the first solver invocation
\* (in the iteration that first saw a captcha-tagged Result) returns
\* (ask_for_refresh = True, captcha_solved = False), there is exactly one
\* re-navigation, nb_refresh is 1, the loop exits without another iteration,
\* the parser is not applied and the captcha-tagged Result is returned as
\* the classifier produced it.
C8_ScenarioC ==
    (/\ cfg.max_refresh = 1
     /\ solver_calls # <<>>
     /\ solver_calls[1] = <<TRUE, FALSE>>) =>
        /\ Len(solver_calls) = 1
        /\ nb_refresh = 1
        /\ nb_goto = 2
        /\ captcha_to_solve
        /\ last_captcha = MkResult(CaptchaRaisedError, Str("captcha"), read_body.json)
        /\ result = last_captcha
        /\ pc \in {"refresh", "wait", "loop", "after", "done"}
        /\ pc = "done" => (returned = last_captcha /\ ~parser_applied)

\* C8 witness: Scenario C ran to its end with json_parse_result configured.
C8_Witness ==
    /\ pc = "done"
    /\ cfg.max_refresh = 1
    /\ cfg.json_parse_result = "module"
    /\ solver_calls = << <<TRUE, FALSE>> >>
    /\ returned = MkResult(CaptchaRaisedError, Str("captcha"), PCaptcha)

\* C9 as stated: with no solver configured, once a captcha-tagged Result was
\* seen (taken here for a call that received one response only, the payload
\* {"captcha": "yes"}), the captcha stays pending, no refresh is issued, the
\* loop ends only when the timeout is exceeded and the call returns the
\* captcha-tagged Result.
C9_NoSolverReturnsCaptcha ==
    (/\ cfg.captcha_solver_function = "absent"
     /\ last_captcha # PyNone
     /\ nb_responses = 1
     /\ last_matching = Decoded(PCaptcha)) =>
        /\ captcha_to_solve
        /\ nb_refresh = 0
        /\ pc \in {"after", "done"} =>
            /\ time_spent > cfg.timeout
            /\ result = last_captcha
        /\ (pc = "done" /\ ~parser_applied) => returned = last_captcha

HasNonCallableHook ==
    \/ cfg.json_detect_error = "noncallable"
    \/ cfg.json_parse_result = "noncallable"
    \/ cfg.captcha_solver_function = "noncallable"

\* C10 as stated: a call given a non-callable hook fails at call time: it
\* never navigates and never returns a value.
C10_NonCallableFailsFast ==
    HasNonCallableHook => (nb_goto = 0 /\ pc # "done")

\* C11 as stated: every finished call of a with_page-wrapped function has
\* closed the page and the browser it acquired, whether the wrapped
\* function returned or raised.
C11_ReleasedOnEveryExit ==
    (wp.pc = "idle" /\ wp.calls > 0) =>
        (wp.page = "closed" /\ wp.browser = "closed")

\* C12 as stated: with randomized = True and no call passing a wait_ms
\* keyword argument, the wait of every call lies in
\* [int(0.85*W + 0.5), int(1.15*W + 0.5)] for the configured W.
C12_WaitWithinConfiguredRange ==
    (wa.randomized /\ wa.calls > 0 /\ ~wa.overridden) =>
        wa.waited \in RandomizedMin(wa.configured)..RandomizedMax(wa.configured)

\* C13 as stated: with a string selector as marker, every call of the
\* decorated function waits for the marker on the page of that call.
C13_WaitsOnEveryCall ==
    (cm.configured.t = "str" /\ cm.calls > 0) => cm.waited_on = cm.page

\* the loop is about to run an iteration whose target is a non-empty mapping
\* and whose Result, after the classifier step, is not tagged as a captcha
C14_NonCaptchaIteration ==
    /\ pc = "loop"
    /\ LoopCondition(time_spent, nb_refresh)
    /\ IsDict(Target(target_json))
    /\ Truthy(Target(target_json))
    /\ Get(Classify(cfg.json_detect_error, Tentative(Target(target_json)))[2],
           "error", PyNone) # CaptchaRaisedError

\* C14: a loop iteration whose target is non-empty and whose (possibly
\* classifier-rewritten) Result is not tagged with the captcha sentinel ends
\* the loop in that iteration with that Result as the final one: the solver
\* is not invoked, no refresh is issued and no pacing wait is performed,
\* also when captcha-pending was set by an earlier iteration.
C14_NonCaptchaTerminates ==
    [][C14_NonCaptchaIteration =>
        /\ pc' = "after"
        /\ result' = Classify(cfg.json_detect_error, Tentative(Target(target_json)))[2]
        /\ solver_calls' = solver_calls
        /\ nb_refresh' = nb_refresh
        /\ nb_goto' = nb_goto
        /\ time_spent' = time_spent
        /\ captcha_to_solve' = captcha_to_solve]_vars

\* C14 witness: a captcha was pending from an earlier iteration, with a
\* solver configured, when an iteration read an undecodable body that the
\* classifier reported with the interception error tag, and the loop ended
\* there, before the timeout and the refresh budget ended it.
C14_Witness ==
    /\ pc = "after"
    /\ LoopCondition(time_spent, nb_refresh)
    /\ captcha_to_solve
    /\ Callable(cfg.captcha_solver_function)
    /\ cfg.json_detect_error = "unwrap"
    /\ read_body.kind = "undecodable"
    /\ Get(result, "error", PyNone) = PlaywrightInterceptError

\* C15 as stated: a decode error does not end the loop; it is returned only
\* when the timeout or the refresh budget is exhausted.
C15_DecodeErrorRecoverable ==
    (pc \in {"after", "done"} /\ read_body.kind = "undecodable") =>
        ~LoopCondition(time_spent, nb_refresh)

\* C15, amended: a decode error is terminal once read. The iteration that
\* reads the slot holding the record of an undecodable body ends the loop
\* there (no solver call, refresh or further read follows), and the Result
\* after the loop is the one built from that record.
C15_DecodeErrorIsTerminal ==
    read_body.kind = "undecodable" =>
        /\ pc \in {"after", "done", "raised"}
        /\ Get(target_json, "error", PyNone) = PlaywrightInterceptError
        /\ StrContains(Get(target_json, "error_message", PyNone), read_body.text)
        /\ result = Classify(cfg.json_detect_error, Tentative(target_json))[2]

\* C15 witness: the decode error was read and returned while the timeout
\* and the refresh budget would have allowed further iterations.
C15_Witness ==
    /\ pc = "done"
    /\ read_body.kind = "undecodable"
    /\ LoopCondition(time_spent, nb_refresh)
    /\ cfg.json_parse_result = "module"
    /\ Get(returned, "error", PyNone) = PlaywrightInterceptError

\* a usable intercepted payload: a non-empty mapping that is not itself an
\* error record
C16_Usable(d) ==
    /\ IsDict(d)
    /\ Truthy(d)
    /\ ~Truthy(Get(d, "error", PyNone))

\* C16 as stated: every Result returned without the parser having been
\* applied, with no classifier or the module's json_detect_error, has error
\* None exactly when data is a usable payload, and error_message None
\* exactly when error is None (taken here for the returned values that have
\* the three keys).
C16_ResultInvariant ==
    (/\ pc = "done"
     /\ ~parser_applied
     /\ cfg.json_detect_error \in {"absent", "module"}
     /\ WellFormed(returned)) =>
        /\ (Get(returned, "error", PyNone) = PyNone)
               <=> C16_Usable(Get(returned, "data", PyNone))
        /\ (Get(returned, "error_message", PyNone) = PyNone)
               <=> (Get(returned, "error", PyNone) = PyNone)

\* C17: when a listener (the one of intercept_json_playwright, of the _old
\* and _multiple variants, or of construct_handle_response) is called with a
\* response whose URL does not contain json_url_subpart, the slot is left as
\* it was, whatever it holds, and the body is not decoded.
C17_NonMatchingIgnored ==
    [][(nb_responses' = nb_responses + 1 /\ ~last_response'.match) =>
        /\ target_json' = target_json
        /\ nb_decoded' = nb_decoded
        /\ listener_raised' = listener_raised]_vars

\* C17 witness: a non-matching response was received after the listener of
\* intercept_json_playwright had stored the record of an undecodable body,
\* which is still in the slot, unread.
C17_Witness ==
    /\ fn = "intercept_json_playwright"
    /\ nb_responses = 2
    /\ ~last_response.match
    /\ nb_decoded = 1
    /\ pending.kind = "undecodable"
    /\ Get(Get(target_json, "data", PyNone), "error", PyNone) = PlaywrightInterceptError

\* the decoded body stored as it is: a mapping with no truthy 'error' field
C18_Success(body) ==
    body.kind = "json" /\ ~Truthy(Get(body.json, "error", PyNone))

\* C18 as stated: after a listener handled a matching response, the slot is
\* {data: B} for a body decoded to a mapping B with no truthy 'error' field,
\* and otherwise the tagged error record, whose message is the decode
\* failure text or the embedded error value and whose data is {} (taken
\* here for the listener of intercept_json_playwright and the error case).
C18_SlotContent ==
    (fn = "intercept_json_playwright" /\ pending # NoBody /\ ~C18_Success(pending)) =>
        target_json =
            IF C18_Success(pending)
            THEN PyDict([data |-> pending.json])
            ELSE MkResult(PlaywrightInterceptError,
                          IF pending.kind = "json" THEN pending.json.d["error"]
                          ELSE PyStr(pending.text),
                          EmptyDict)

\* what a listener stores for a matching response with the given body
C18_Entry(body) ==
    IF C18_Success(body)
    THEN body.json
    ELSE MkResult(PlaywrightInterceptError,
                  IF body.kind = "json" THEN body.json.d["error"]
                  ELSE PyStr(<<"exception when trying to intercept:">> \o body.text),
                  EmptyDict)

\* C18, amended: after a listener handled a matching response (and until
\* the slot is next read), the value it stored is B itself for a body
\* decoded to a mapping B with no truthy 'error' field, and otherwise the
\* tagged error record with data {} and, as message, the embedded error
\* value or 'exception when trying to intercept:' followed by the decode
\* failure text. The listeners of the three variants store that value under
\* the key 'data' of the slot; the listener of construct_handle_response
\* assigns it to page.target_json.
C18_StoredEntry ==
    pending # NoBody =>
        IF fn = "construct_handle_response"
        THEN target_json = C18_Entry(pending)
        ELSE Get(target_json, "data", PyNone) = C18_Entry(pending)

\* C18 witness: the listener of intercept_json_playwright handled a body
\* carrying a truthy 'error' field; the record is under the slot's 'data'.
C18_Witness ==
    /\ fn = "intercept_json_playwright"
    /\ pending = Decoded(PEmbeddedError)
    /\ last_response = [match |-> TRUE, body |-> Decoded(PEmbeddedError)]
    /\ Get(target_json, "data", PyNone)
           = MkResult(PlaywrightInterceptError, Str("boom"), EmptyDict)

\* C19 as stated: no failure inside the listener registered by
\* intercept_json_playwright leaves the listener, whether the transport was
\* cancelled or a matching body decodes to something that is not a mapping.
C19_ListenerFailuresSwallowed ==
    (listening /\ last_response.match) => ~listener_raised

\* C20: in intercept_json_playwright and in the _old and _multiple
\* variants the listener is registered before the first navigation is
\* started: from the start of the navigation on the listener is
\* registered, and no response is received without being handed to it.
C20_ListenerBeforeNavigation ==
    fn \in LegacyFns \cup {"intercept_json_playwright"} =>
        /\ nb_goto > 0 => listening
        /\ pc \in {"goto", "refresh", "wait", "loop", "for", "after", "done"} => listening
        /\ lost = 0

\* C20 witness: a matching response arrived while the initial navigation of
\* intercept_json_playwright was in progress, and the listener decoded it.
C20_Witness ==
    /\ fn = "intercept_json_playwright"
    /\ pc = "goto"
    /\ nb_goto = 1
    /\ nb_responses = 1
    /\ last_response = [match |-> TRUE, body |-> Decoded(PTiers)]
    /\ nb_decoded = 1
    /\ Get(target_json, "data", PyNone) = PTiers

C22_EveryIterationPaced ==
    pc \in {"after", "done"} => time_spent >= PacingFloor * nb_iter

\* C22, amended: every loop iteration that does not end the loop by break
\* lasts at least 500 ms: when its work took d < 500 ms the engine waits the
\* remaining 500 - d ms, and the elapsed-time counter grows by the duration
\* of the iteration, the larger of d and 500. The iteration that ends the
\* loop by break is not paced and adds nothing to the counter.
C22_PacedUnlessBreak ==
    [][/\ (pc \in {"wait", "refresh"} /\ pc' = "loop") =>
            /\ time_spent' - time_spent >= PacingFloor
            /\ time_spent' - time_spent = IF work' < PacingFloor THEN PacingFloor ELSE work'
       /\ (pc = "refresh" /\ pc' = "wait") => (work' < PacingFloor /\ time_spent' = time_spent)
       /\ (pc = "loop" /\ pc' \in {"after", "raised"}) => time_spent' = time_spent
       /\ (pc' = "loop") => time_spent' >= PacingFloor * nb_iter']_vars

\* C22 witness: an iteration whose refresh navigation took 200 ms waited
\* the remaining 300 ms and added 500 to the counter.
C22_Witness ==
    /\ pc = "loop"
    /\ nb_iter = 1
    /\ nb_refresh = 1
    /\ work = 200
    /\ time_spent = 500

\* the most recent solver invocation returned captcha_solved = True
C23_LastSolved ==
    solver_calls # <<>> /\ solver_calls[Len(solver_calls)][2]

\* a Result with no error and a non-empty payload
C23_Success(r) ==
    /\ WellFormed(r)
    /\ Get(r, "error", PyNone) = PyNone
    /\ Truthy(Get(r, "data", PyNone))

\* C23: when the solver returns captcha_solved = True, the same iteration
\* clears captcha-pending and resets the slot and the tentative Result to
\* the empty mapping; from then on captcha-pending stays cleared and the
\* solver is not invoked until an iteration observes a new captcha-tagged
\* Result, and a success is reported only from a later iteration that read
\* a matching response delivered after the reset.
C23_SolvedResets ==
    [][/\ (solver_calls' # solver_calls /\ C23_LastSolved') =>
            /\ ~captcha_to_solve'
            /\ target_json' = EmptyDict
            /\ result' = EmptyDict
            /\ pending' = NoBody
       /\ C23_LastSolved' => ~captcha_to_solve'
       /\ (C23_LastSolved /\ solver_calls' # solver_calls) =>
            Get(last_captcha', "error", PyNone) = CaptchaRaisedError
              /\ Get(last_captcha', "data", PyNone) = read_body'.json
              /\ read_body' # NoBody
       /\ (C23_LastSolved' /\ pc' \in {"after", "done"} /\ C23_Success(result')) =>
            /\ read_body' # NoBody
            /\ ValidPayload(read_body') => Get(result', "data", PyNone) = read_body'.json]_vars

\* C23 witness: the solver solved a captcha, a new payload was delivered
\* afterwards, a later iteration read it and the call reported it.
C23_Witness ==
    /\ pc = "done"
    /\ C23_LastSolved
    /\ nb_iter = 2
    /\ read_body = Decoded(PTiers)
    /\ returned = MkResult(PyNone, PyNone, PTiers)

\* C24 as stated: an iteration that follows the read of a payload, with no
\* matching response stored in between, reads an empty target (taken here
\* for a call that received the captcha payload with a 'data' field and
\* nothing else).
C24_ClearOnRead ==
    (/\ nb_iter > 1
     /\ nb_responses = 1
     /\ last_matching = Decoded(PCaptchaData)
     /\ read_body = NoBody
     /\ pending = NoBody
     /\ pc \in {"wait", "refresh", "after", "done"}) =>
        target_json = EmptyDict


\* C25 as stated: when matching responses were delivered since the last read
\* of the slot, the next read observes the most recent of them.
C25_LastMatchingWins ==
    [][(nb_iter' = nb_iter + 1 /\ pending # NoBody) => read_body' = last_matching]_vars


\* C26: the loop body has run at most floor((timeout - t0) / 500) + 1 times,
\* and not at all (no payload examined) when the initial navigation took
\* longer than the timeout.
C26_IterationBound ==
    IF t0 > cfg.timeout
    THEN nb_iter = 0 /\ read_body = NoBody
    ELSE nb_iter <= ((cfg.timeout - t0) \div PacingFloor) + 1

\* C26: when every hook invocation and every page operation returns, the
\* call of intercept_json_playwright terminates (it returns or raises), and
\* its loop body runs within the bound above.
C26_Terminates == <>(pc \in {"done", "raised"}) /\ []C26_IterationBound

C26_Witness ==
    /\ pc = "done"
    /\ cfg.timeout = 1100
    /\ t0 = 0
    /\ nb_iter = 3


\* the solver was invoked in this step
C27_SolverCalled == Len(solver_calls') = Len(solver_calls) + 1

\* C27: the solver is invoked only in an iteration in which the captcha flag
\* is set (a captcha-tagged Result has been observed in this call, and the
\* flag is still set afterwards unless the solver reported the captcha
\* solved), never in the iteration that breaks; the flag becomes set only in
\* an iteration whose target is non-empty and whose Result carries the
\* captcha sentinel; a refresh is issued only in an iteration in which the
\* solver was invoked and returned ask_for_refresh = True.
C27_SolverOnlyOnCaptcha ==
    [][/\ C27_SolverCalled =>
            /\ nb_iter' = nb_iter + 1
            /\ last_captcha' # PyNone
            /\ Get(last_captcha', "error", PyNone) = CaptchaRaisedError
            /\ captcha_to_solve' \/ solver_calls'[Len(solver_calls')][2]
            /\ pc' \in {"wait", "refresh"}
       /\ (captcha_to_solve' /\ ~captcha_to_solve) =>
            /\ nb_iter' = nb_iter + 1
            /\ Truthy(Target(target_json))
            /\ Get(result', "error", PyNone) = CaptchaRaisedError
            /\ last_captcha' = result'
       /\ (nb_refresh' # nb_refresh \/ (pc' = "refresh" /\ pc # "refresh")) =>
            /\ C27_SolverCalled
            /\ solver_calls'[Len(solver_calls')][1]
            /\ nb_refresh' = nb_refresh + 1
            /\ nb_goto' = nb_goto + 1]_vars

\* a second iteration invoked the solver on a flag kept from the first one,
\* its own target being empty, and asked for a refresh
C27_Witness ==
    /\ pc = "refresh"
    /\ nb_iter = 2
    /\ solver_calls = <<<<FALSE, FALSE>>, <<TRUE, FALSE>>>>
    /\ read_body = NoBody
    /\ result = EmptyPayloadResult
    /\ captcha_to_solve


\* C28 as stated: the options a call of a with_page-decorated function uses
\* are the built-in defaults, overridden by the decorator's own arguments,
\* overridden by that call's own keyword arguments.
C28_OptionsOfThisCall ==
    wp.calls > 0 => wp.options = with_page_kwargs(wp.decorated, wp.func_kwargs)


\* C29 as stated: intercept_json_playwright_multiple leaves its polling loop
\* by break only in a poll that examines a payload intercepted since the
\* previous poll (a response is examined, and counted, once).
C29_StopsAtInterceptedPayload ==
    [][(fn = "intercept_json_playwright_multiple" /\ pc = "wait" /\ pc' = "after") =>
            pending # NoBody]_vars

====
